---------------------------- MODULE Spec2Model ----------------------------
(***************************************************************************)
(* A model of the pushed-down expression evaluator of                      *)
(* src/src/util/xeval/evaluator.rs: the Evaluator (row bindings and the    *)
(* value-list cache keyed by the address of the ValueList node), the       *)
(* recursive eval over expression trees, and the caller's operations       *)
(* around it (building a tree, evaluating it, dropping it).                *)
(***************************************************************************)
EXTENDS Integers, Sequences, FiniteSets, TLC

VARIABLES
  row,                \* Evaluator.row: column id -> Datum
  cached_value_list,  \* Evaluator.cached_value_list: node address -> Vec<Datum>
  expr,               \* the caller's live expression tree, or NoExpr
  result,             \* the outcome of the last eval call on expr, or NoResult
  trace               \* what the last eval call did, in order

vars == <<row, cached_value_list, expr, result, trace>>

----------------------------------------------------------------------------
(* Bounds of the model.                                                    *)

\* Heap addresses a ValueList node can be allocated at.
NAddr == 2
\* Column ids the caller binds or refers to: 1..MaxCol.
MaxCol == 2

Addrs == 1..NAddr
ColIds == 1..MaxCol

----------------------------------------------------------------------------
(* Datum: util::codec::Datum, the variants the evaluator handles.          *)
(* A Datum is a record [t, i, b]: t the variant, i the integer of an I64   *)
(* or U64, b the bytes of a Bytes (a sequence of byte values).             *)

Null == [t |-> "Null", i |-> 0, b |-> <<>>]
I64(n) == [t |-> "I64", i |-> n, b |-> <<>>]
U64(n) == [t |-> "U64", i |-> n, b |-> <<>>]
Bytes(s) == [t |-> "Bytes", i |-> 0, b |-> s]

IsInt(d) == d.t \in {"I64", "U64"}

\* impl From<bool> for Datum: true is I64(1), false is I64(0).
FromBool(p) == IF p THEN I64(1) ELSE I64(0)

\* impl From<Option<bool>> for Datum: None is Null.
FromOptBool(o) ==
  IF o = "None" THEN Null ELSE FromBool(o = "Some(true)")

\* ASCII digits '0'..'9' are the bytes 48..57.
IsDigit(c) == c >= 48 /\ c <= 57

RECURSIVE DigitsValue(_, _)
DigitsValue(s, acc) ==
  IF s = <<>> THEN acc
  ELSE DigitsValue(Tail(s), acc * 10 + (Head(s) - 48))

\* The codec's decimal parse of a byte string: a number, or a failure.
bytes_to_number(s) ==
  IF s # <<>> /\ \A k \in 1..Len(s) : IsDigit(s[k])
    THEN [ok |-> TRUE, n |-> DigitsValue(s, 0)]
    ELSE [ok |-> FALSE, n |-> 0]

OrdOfInts(x, y) ==
  IF x < y THEN "Less" ELSE IF x = y THEN "Equal" ELSE "Greater"

\* Lexicographic order of two byte strings by unsigned byte value.
RECURSIVE OrdOfBytes(_, _)
OrdOfBytes(s, u) ==
  IF s = <<>> THEN (IF u = <<>> THEN "Equal" ELSE "Less")
  ELSE IF u = <<>> THEN "Greater"
  ELSE IF Head(s) < Head(u) THEN "Less"
  ELSE IF Head(s) > Head(u) THEN "Greater"
  ELSE OrdOfBytes(Tail(s), Tail(u))

\* Datum::cmp: Result<Ordering>.  Null is below every other Datum and equal
\* to itself; integers compare as mathematical integers; Bytes compare
\* lexicographically; an integer and a Bytes compare as numbers after the
\* decimal parse of the Bytes, whose failure is the error.
cmp(x, y) ==
  IF x.t = "Null" /\ y.t = "Null" THEN [ok |-> TRUE, ord |-> "Equal"]
  ELSE IF x.t = "Null" THEN [ok |-> TRUE, ord |-> "Less"]
  ELSE IF y.t = "Null" THEN [ok |-> TRUE, ord |-> "Greater"]
  ELSE IF IsInt(x) /\ IsInt(y) THEN [ok |-> TRUE, ord |-> OrdOfInts(x.i, y.i)]
  ELSE IF x.t = "Bytes" /\ y.t = "Bytes"
    THEN [ok |-> TRUE, ord |-> OrdOfBytes(x.b, y.b)]
  ELSE IF x.t = "Bytes"
    THEN LET p == bytes_to_number(x.b) IN
         IF p.ok THEN [ok |-> TRUE, ord |-> OrdOfInts(p.n, y.i)]
         ELSE [ok |-> FALSE, ord |-> "Equal"]
  ELSE LET p == bytes_to_number(y.b) IN
       IF p.ok THEN [ok |-> TRUE, ord |-> OrdOfInts(x.i, p.n)]
       ELSE [ok |-> FALSE, ord |-> "Equal"]

\* Datum::into_bool on a non-null Datum: Result<bool>.
into_bool(d) ==
  IF IsInt(d) THEN [ok |-> TRUE, v |-> d.i # 0]
  ELSE LET p == bytes_to_number(d.b) IN
       IF p.ok THEN [ok |-> TRUE, v |-> p.n # 0] ELSE [ok |-> FALSE, v |-> FALSE]

----------------------------------------------------------------------------
(* Codec: fixed-width big-endian integers and the value-list stream.       *)

\* Payload length of an integer literal.
NumLen == 8

RECURSIVE Repeat(_, _)
Repeat(x, n) == IF n = 0 THEN <<>> ELSE <<x>> \o Repeat(x, n - 1)

\* number::encode_u64 of a value below 256: seven zero bytes and the value.
encode_u64(n) == Repeat(0, NumLen - 1) \o <<n>>

\* number::encode_i64 of a value in -128..127: two's complement, big-endian.
encode_i64(n) ==
  IF n >= 0 THEN Repeat(0, NumLen - 1) \o <<n>>
  ELSE Repeat(255, NumLen - 1) \o <<256 + n>>

RECURSIVE BigEndian(_, _)
BigEndian(s, acc) ==
  IF s = <<>> THEN acc ELSE BigEndian(Tail(s), acc * 256 + Head(s))

\* number::decode_u64: exactly 8 bytes, big-endian.
decode_u64(s) ==
  IF Len(s) # NumLen THEN [ok |-> FALSE, n |-> 0]
  ELSE [ok |-> TRUE, n |-> BigEndian(s, 0)]

\* number::decode_i64: exactly 8 bytes, big-endian two's complement (a
\* negative value is minus one minus the value of the complemented bytes).
decode_i64(s) ==
  IF Len(s) # NumLen THEN [ok |-> FALSE, n |-> 0]
  ELSE IF s[1] >= 128
    THEN [ok |-> TRUE,
          n |-> 0 - 1 - BigEndian([k \in 1..NumLen |-> 255 - s[k]], 0)]
  ELSE [ok |-> TRUE, n |-> BigEndian(s, 0)]

\* The type tags of the value-list stream.
NIL_FLAG == 0
COMPACT_BYTES_FLAG == 2
INT_FLAG == 3
UINT_FLAG == 4

\* datum::encode_value of one Datum: a tag byte and the payload (nothing for
\* Null, 8 bytes for an integer, a length byte and the bytes for Bytes).
encode_datum(d) ==
  IF d.t = "Null" THEN <<NIL_FLAG>>
  ELSE IF d.t = "I64" THEN <<INT_FLAG>> \o encode_i64(d.i)
  ELSE IF d.t = "U64" THEN <<UINT_FLAG>> \o encode_u64(d.i)
  ELSE <<COMPACT_BYTES_FLAG, Len(d.b)>> \o d.b

RECURSIVE encode_value(_)
encode_value(l) ==
  IF l = <<>> THEN <<>> ELSE encode_datum(Head(l)) \o encode_value(Tail(l))

\* datum::decode: the Datums of a stream; an unknown tag or a truncated
\* payload is the error.
RECURSIVE decode(_, _)
decode(s, acc) ==
  IF s = <<>> THEN [ok |-> TRUE, list |-> acc]
  ELSE IF Head(s) = NIL_FLAG THEN decode(Tail(s), Append(acc, Null))
  ELSE IF Head(s) \in {INT_FLAG, UINT_FLAG}
    THEN IF Len(s) < 1 + NumLen THEN [ok |-> FALSE, list |-> <<>>]
         ELSE LET body == SubSeq(s, 2, 1 + NumLen)
                  rest == SubSeq(s, 2 + NumLen, Len(s))
              IN IF Head(s) = INT_FLAG
                   THEN decode(rest, Append(acc, I64(decode_i64(body).n)))
                   ELSE decode(rest, Append(acc, U64(decode_u64(body).n)))
  ELSE IF Head(s) = COMPACT_BYTES_FLAG
    THEN IF Len(s) < 2 \/ Len(s) < 2 + s[2] THEN [ok |-> FALSE, list |-> <<>>]
         ELSE decode(SubSeq(s, 3 + s[2], Len(s)),
                     Append(acc, Bytes(SubSeq(s, 3, 2 + s[2]))))
  ELSE [ok |-> FALSE, list |-> <<>>]

----------------------------------------------------------------------------
(* Expression trees: tipb::expression::Expr.  A node is a record           *)
(* [tp, val, children, addr]: its kind, its payload bytes, its children    *)
(* and, for a ValueList node, the address it is allocated at (0 for the    *)
(* other kinds, whose address the evaluator never takes).                  *)

Node(tp, val, children, addr) ==
  [tp |-> tp, val |-> val, children |-> children, addr |-> addr]

\* test helper datum_expr: the literal node of a Datum.
datum_expr(d) ==
  IF d.t = "I64" THEN Node("Int64", encode_i64(d.i), <<>>, 0)
  ELSE IF d.t = "U64" THEN Node("Uint64", encode_u64(d.i), <<>>, 0)
  ELSE IF d.t = "Bytes" THEN Node("Bytes", d.b, <<>>, 0)
  ELSE Node("Null", <<>>, <<>>, 0)

\* test helper col_expr: a reference to column col_id.
col_expr(col_id) == Node("ColumnRef", encode_i64(col_id), <<>>, 0)

\* test helper bin_expr_r: a node of kind tp over two children.
bin_expr_r(left, right, tp) == Node(tp, <<>>, <<left, right>>, 0)

\* test helper not_expr, over an expression.
not_expr(child) == Node("Not", <<>>, <<child>>, 0)

\* test helper like_expr: Like over two byte-string literals.
like_expr(target, pattern) ==
  bin_expr_r(datum_expr(Bytes(target)), datum_expr(Bytes(pattern)), "Like")

\* The ValueList node of test helper in_expr: payload val, allocated at addr.
list_expr(val, addr) == Node("ValueList", val, <<>>, addr)

\* test helper in_expr over a target expression and a ValueList node.
in_expr(target_expr, value_list) ==
  Node("In", <<>>, <<target_expr, value_list>>, 0)

----------------------------------------------------------------------------
(* Results.  An evaluation step returns a record carrying the Result       *)
(* (kind "Ok", "Err" or "Panic", with the value or the error kind), the    *)
(* evaluator's cache after the step and the trace of what was done so far. *)
(* val/val2 hold Datums, opt/opt2 an Option<Ordering> or Option<bool>,     *)
(* list a decoded value list.  rows is the evaluator's row map after the   *)
(* step: no step of the evaluator writes it, so it is the map as it was.   *)

EmptyMap == [k \in {} |-> Null]

Base(c, tr) ==
  [kind |-> "Ok", val |-> Null, val2 |-> Null, opt |-> "None", opt2 |-> "None",
   list |-> <<>>, err |-> "", cache |-> c, trace |-> tr, rows |-> row]

Ok(d, c, tr) == [Base(c, tr) EXCEPT !.val = d]
Err(e, c, tr) == [Base(c, tr) EXCEPT !.kind = "Err", !.err = e]
\* unimplemented!(): the thread panics, no Result is returned.
Panic(c, tr) == [Base(c, tr) EXCEPT !.kind = "Panic", !.err = "not yet implemented"]

\* One entry of the trace: a call of eval on the node at path, a call of
\* Datum::cmp on (x, y), or an insertion into the cache under key.
Event(ev, path, key, x, y) ==
  [ev |-> ev, path |-> path, key |-> key, x |-> x, y |-> y]

----------------------------------------------------------------------------
(* The evaluator.  Every operator takes the node, its path from the root   *)
(* (child indices), the cache c and the trace tr so far.                   *)

RECURSIVE eval(_, _, _, _)

eval_int(e, path, c, tr) ==
  LET i == decode_i64(e.val) IN
  IF ~i.ok THEN Err("Codec", c, tr) ELSE Ok(I64(i.n), c, tr)

eval_uint(e, path, c, tr) ==
  LET u == decode_u64(e.val) IN
  IF ~u.ok THEN Err("Codec", c, tr) ELSE Ok(U64(u.n), c, tr)

\* eval_column_ref giving Null for a column that is not bound.
eval_column_ref_or_null(e, path, c, tr) ==
  LET i == decode_i64(e.val) IN
  IF ~i.ok THEN Err("Codec", c, tr)
  ELSE IF i.n \in DOMAIN row THEN Ok(row[i.n], c, tr)
  ELSE Ok(Null, c, tr)

\* eval_column_ref binding Null to a column that is not bound, in the way of
\* self.row.entry(i).or_insert(Datum::Null).
eval_column_ref_inserting(e, path, c, tr) ==
  LET i == decode_i64(e.val) IN
  IF ~i.ok THEN Err("Codec", c, tr)
  ELSE IF i.n \in DOMAIN row THEN Ok(row[i.n], c, tr)
  ELSE [Ok(Null, c, tr) EXCEPT
          !.rows = [k \in DOMAIN row \cup {i.n} |-> IF k = i.n THEN Null ELSE row[k]]]

eval_column_ref(e, path, c, tr) ==
  LET i == decode_i64(e.val) IN
  IF ~i.ok THEN Err("Codec", c, tr)
  ELSE IF i.n \in DOMAIN row THEN Ok(row[i.n], c, tr)
  ELSE Err("Eval", c, tr)

\* eval_two_children evaluating the right child first.
eval_two_children_right_first(e, path, c, tr) ==
  IF Len(e.children) # 2 THEN Err("Expr", c, tr)
  ELSE LET right == eval(e.children[2], Append(path, 2), c, tr) IN
       IF right.kind # "Ok" THEN right
       ELSE LET left == eval(e.children[1], Append(path, 1),
                             right.cache, right.trace) IN
            IF left.kind # "Ok" THEN left
            ELSE [Base(left.cache, left.trace) EXCEPT
                    !.val = left.val, !.val2 = right.val]

eval_two_children(e, path, c, tr) ==
  IF Len(e.children) # 2 THEN Err("Expr", c, tr)
  ELSE LET left == eval(e.children[1], Append(path, 1), c, tr) IN
       IF left.kind # "Ok" THEN left
       ELSE LET right == eval(e.children[2], Append(path, 2),
                              left.cache, left.trace) IN
            IF right.kind # "Ok" THEN right
            ELSE [Base(right.cache, right.trace) EXCEPT
                    !.val = left.val, !.val2 = right.val]

\* cmp_children without its guard for Null operands.
cmp_children_unguarded(e, path, c, tr) ==
  LET r == eval_two_children(e, path, c, tr) IN
  IF r.kind # "Ok" THEN r
  ELSE LET o == cmp(r.val, r.val2)
           tr2 == Append(r.trace, Event("cmp", path, 0, r.val, r.val2))
       IN IF o.ok THEN [Base(r.cache, tr2) EXCEPT !.opt = o.ord]
          ELSE Err("Eval", r.cache, tr2)

cmp_children(e, path, c, tr) ==
  LET r == eval_two_children(e, path, c, tr) IN
  IF r.kind # "Ok" THEN r
  ELSE IF r.val = Null \/ r.val2 = Null
    THEN [Base(r.cache, r.trace) EXCEPT !.opt = "None"]
  ELSE LET o == cmp(r.val, r.val2)
           tr2 == Append(r.trace, Event("cmp", path, 0, r.val, r.val2))
       IN IF o.ok THEN [Base(r.cache, tr2) EXCEPT !.opt = o.ord]
          ELSE Err("Eval", r.cache, tr2)

\* cmp.map(|c| c in ords).into(): None is Null.
OrdInto(r, ords) ==
  IF r.kind # "Ok" THEN r
  ELSE Ok(IF r.opt = "None" THEN Null ELSE FromBool(r.opt \in ords),
          r.cache, r.trace)

eval_lt(e, path, c, tr) == OrdInto(cmp_children(e, path, c, tr), {"Less"})
eval_le(e, path, c, tr) == OrdInto(cmp_children(e, path, c, tr), {"Less", "Equal"})
eval_eq(e, path, c, tr) == OrdInto(cmp_children(e, path, c, tr), {"Equal"})
eval_ne(e, path, c, tr) == OrdInto(cmp_children(e, path, c, tr), {"Less", "Greater"})
eval_ge(e, path, c, tr) == OrdInto(cmp_children(e, path, c, tr), {"Greater", "Equal"})
eval_gt(e, path, c, tr) == OrdInto(cmp_children(e, path, c, tr), {"Greater"})

\* eval_null_eq with the Null guard of the other comparisons.
eval_null_eq_guarded(e, path, c, tr) ==
  OrdInto(cmp_children(e, path, c, tr), {"Equal"})

eval_null_eq(e, path, c, tr) ==
  LET r == eval_two_children(e, path, c, tr) IN
  IF r.kind # "Ok" THEN r
  ELSE LET o == cmp(r.val, r.val2)
           tr2 == Append(r.trace, Event("cmp", path, 0, r.val, r.val2))
       IN IF ~o.ok THEN Err("Eval", r.cache, tr2)
          ELSE Ok(FromBool(o.ord = "Equal"), r.cache, tr2)

\* fn eval_into_bool: None for Null, else Some(into_bool).
eval_into_bool(d) ==
  IF d = Null THEN [ok |-> TRUE, opt |-> "None"]
  ELSE LET p == into_bool(d) IN
       IF ~p.ok THEN [ok |-> FALSE, opt |-> "None"]
       ELSE [ok |-> TRUE, opt |-> IF p.v THEN "Some(true)" ELSE "Some(false)"]

\* eval_two_children_as_bool that leaves the right child alone once the left
\* child is false.
eval_two_children_as_bool_short(e, path, c, tr) ==
  IF Len(e.children) # 2 THEN Err("Expr", c, tr)
  ELSE LET left == eval(e.children[1], Append(path, 1), c, tr) IN
       IF left.kind # "Ok" THEN left
       ELSE LET left_bool == eval_into_bool(left.val) IN
            IF left_bool.ok /\ left_bool.opt = "Some(false)"
              THEN [Base(left.cache, left.trace) EXCEPT
                      !.opt = "Some(false)", !.opt2 = "None"]
            ELSE LET right == eval(e.children[2], Append(path, 2),
                                   left.cache, left.trace) IN
                 IF right.kind # "Ok" THEN right
                 ELSE IF ~left_bool.ok THEN Err("Eval", right.cache, right.trace)
                 ELSE LET right_bool == eval_into_bool(right.val) IN
                      IF ~right_bool.ok THEN Err("Eval", right.cache, right.trace)
                      ELSE [Base(right.cache, right.trace) EXCEPT
                              !.opt = left_bool.opt, !.opt2 = right_bool.opt]

eval_two_children_as_bool(e, path, c, tr) ==
  LET r == eval_two_children(e, path, c, tr) IN
  IF r.kind # "Ok" THEN r
  ELSE LET left_bool == eval_into_bool(r.val) IN
       IF ~left_bool.ok THEN Err("Eval", r.cache, r.trace)
       ELSE LET right_bool == eval_into_bool(r.val2) IN
            IF ~right_bool.ok THEN Err("Eval", r.cache, r.trace)
            ELSE [Base(r.cache, r.trace) EXCEPT
                    !.opt = left_bool.opt, !.opt2 = right_bool.opt]

\* eval_and without the arm (_, Some(false)).
eval_and_left_only(e, path, c, tr) ==
  LET p == eval_two_children_as_bool(e, path, c, tr) IN
  IF p.kind # "Ok" THEN p
  ELSE IF p.opt = "Some(true)" /\ p.opt2 = "Some(true)"
    THEN Ok(FromBool(TRUE), p.cache, p.trace)
  ELSE IF p.opt = "Some(false)"
    THEN Ok(FromBool(FALSE), p.cache, p.trace)
  ELSE Ok(Null, p.cache, p.trace)

eval_and(e, path, c, tr) ==
  LET p == eval_two_children_as_bool(e, path, c, tr) IN
  IF p.kind # "Ok" THEN p
  ELSE IF p.opt = "Some(true)" /\ p.opt2 = "Some(true)"
    THEN Ok(FromBool(TRUE), p.cache, p.trace)
  ELSE IF p.opt = "Some(false)" \/ p.opt2 = "Some(false)"
    THEN Ok(FromBool(FALSE), p.cache, p.trace)
  ELSE Ok(Null, p.cache, p.trace)

\* eval_or without the arm (_, Some(true)).
eval_or_left_only(e, path, c, tr) ==
  LET p == eval_two_children_as_bool(e, path, c, tr) IN
  IF p.kind # "Ok" THEN p
  ELSE IF p.opt = "Some(true)"
    THEN Ok(FromBool(TRUE), p.cache, p.trace)
  ELSE IF p.opt = "Some(false)" /\ p.opt2 = "Some(false)"
    THEN Ok(FromBool(FALSE), p.cache, p.trace)
  ELSE Ok(Null, p.cache, p.trace)

eval_or(e, path, c, tr) ==
  LET p == eval_two_children_as_bool(e, path, c, tr) IN
  IF p.kind # "Ok" THEN p
  ELSE IF p.opt = "Some(true)" \/ p.opt2 = "Some(true)"
    THEN Ok(FromBool(TRUE), p.cache, p.trace)
  ELSE IF p.opt = "Some(false)" /\ p.opt2 = "Some(false)"
    THEN Ok(FromBool(FALSE), p.cache, p.trace)
  ELSE Ok(Null, p.cache, p.trace)

eval_not(e, path, c, tr) ==
  IF Len(e.children) # 1 THEN Err("Expr", c, tr)
  ELSE LET d == eval(e.children[1], Append(path, 1), c, tr) IN
       IF d.kind # "Ok" THEN d
       ELSE IF d.val = Null THEN Ok(Null, d.cache, d.trace)
       ELSE LET b == into_bool(d.val) IN
            IF ~b.ok THEN Err("Eval", d.cache, d.trace)
            ELSE Ok(FromBool(~b.v), d.cache, d.trace)

\* Datum::into_string on a Bytes: the bytes as UTF-8, or the error.  The
\* bytes 248..255 occur in no UTF-8 string; the model's strings hold ASCII
\* bytes and these.
into_string(d) ==
  IF \E k \in 1..Len(d.b) : d.b[k] >= 248 THEN [ok |-> FALSE, s |-> <<>>]
  ELSE [ok |-> TRUE, s |-> d.b]

\* char::is_ascii && char::is_alphabetic: 'A'..'Z' or 'a'..'z'.
IsAsciiAlphabetic(x) == (x >= 65 /\ x <= 90) \/ (x >= 97 /\ x <= 122)

\* AsciiExt::to_ascii_lowercase of a string.
to_ascii_lowercase(s) ==
  [k \in 1..Len(s) |-> IF s[k] >= 65 /\ s[k] <= 90 THEN s[k] + 32 ELSE s[k]]

\* str::starts_with, str::ends_with, str::contains.
starts_with(s, p) == Len(p) <= Len(s) /\ SubSeq(s, 1, Len(p)) = p
ends_with(s, p) ==
  Len(p) <= Len(s) /\ SubSeq(s, Len(s) - Len(p) + 1, Len(s)) = p
contains(s, p) ==
  \E k \in 0..(Len(s) - Len(p)) : SubSeq(s, k + 1, k + Len(p)) = p

\* The byte '%'.
Percent == 37

\* eval_like without the lowercasing of lines 171-174.
eval_like_exact_case(e, path, c, tr) ==
  LET r == eval_two_children(e, path, c, tr) IN
  IF r.kind # "Ok" THEN r
  ELSE IF Null = r.val \/ Null = r.val2 THEN Ok(Null, r.cache, r.trace)
  ELSE LET target == into_string(r.val)
           pattern == into_string(r.val2)
       IN
       IF ~target.ok \/ ~pattern.ok THEN Err("Codec", r.cache, r.trace)
       ELSE
         LET fold == FALSE
             target_str == IF fold THEN to_ascii_lowercase(target.s) ELSE target.s
             pattern_str == IF fold THEN to_ascii_lowercase(pattern.s) ELSE pattern.s
             len == Len(pattern_str)
             matched ==
               IF starts_with(pattern_str, <<Percent>>)
                 THEN IF ends_with(SubSeq(pattern_str, 2, len), <<Percent>>)
                        THEN contains(target_str, SubSeq(pattern_str, 2, len - 1))
                        ELSE ends_with(target_str, SubSeq(pattern_str, 2, len))
               ELSE IF ends_with(pattern_str, <<Percent>>)
                 THEN starts_with(target_str, SubSeq(pattern_str, 1, len - 1))
               ELSE target_str = pattern_str
         IN Ok(FromBool(matched), r.cache, r.trace)

eval_like(e, path, c, tr) ==
  LET r == eval_two_children(e, path, c, tr) IN
  IF r.kind # "Ok" THEN r
  ELSE IF Null = r.val \/ Null = r.val2 THEN Ok(Null, r.cache, r.trace)
  ELSE LET target == into_string(r.val)
           pattern == into_string(r.val2)
       IN
       IF ~target.ok \/ ~pattern.ok THEN Err("Codec", r.cache, r.trace)
       ELSE
         LET fold == \E k \in 1..Len(pattern.s) : IsAsciiAlphabetic(pattern.s[k])
             target_str == IF fold THEN to_ascii_lowercase(target.s) ELSE target.s
             pattern_str == IF fold THEN to_ascii_lowercase(pattern.s) ELSE pattern.s
             len == Len(pattern_str)
             matched ==
               IF starts_with(pattern_str, <<Percent>>)
                 THEN IF ends_with(SubSeq(pattern_str, 2, len), <<Percent>>)
                        THEN contains(target_str, SubSeq(pattern_str, 2, len - 1))
                        ELSE ends_with(target_str, SubSeq(pattern_str, 2, len))
               ELSE IF ends_with(pattern_str, <<Percent>>)
                 THEN starts_with(target_str, SubSeq(pattern_str, 1, len - 1))
               ELSE target_str = pattern_str
         IN Ok(FromBool(matched), r.cache, r.trace)

\* slice::binary_search_by with the closure of check_in: probe the middle
\* element of the remaining slice s; a failed cmp is remembered and counts
\* as Less.  acc collects whether an element compared Equal, whether a cmp
\* failed, and the elements probed.
RECURSIVE binary_search_by(_, _, _)
binary_search_by(s, target, acc) ==
  LET head == SubSeq(s, 1, Len(s) \div 2)
      tail == SubSeq(s, Len(s) \div 2 + 1, Len(s))
  IN
  IF tail = <<>> THEN acc
  ELSE
    LET o == cmp(tail[1], target)
        ord == IF o.ok THEN o.ord ELSE "Less"
        acc2 == [found |-> FALSE, err |-> acc.err \/ ~o.ok,
                 probed |-> Append(acc.probed, tail[1])]
    IN
    IF ord = "Less" THEN binary_search_by(Tail(tail), target, acc2)
    ELSE IF ord = "Greater" THEN binary_search_by(head, target, acc2)
    ELSE [acc2 EXCEPT !.found = TRUE]

\* fn check_in: Result<bool>, and the elements cmp was called on.
check_in(target, value_list) ==
  LET pos == binary_search_by(value_list, target,
                              [found |-> FALSE, err |-> FALSE, probed |-> <<>>])
  IN [ok |-> ~pos.err, found |-> pos.found, probed |-> pos.probed]

\* TryInsertWith::or_try_insert_with on the cache entry of key p: the entry's
\* value if occupied; otherwise the decoded value, inserted when decoding
\* succeeded and not inserted when it failed.
or_try_insert_with(c, p, val) ==
  IF p \in DOMAIN c THEN [ok |-> TRUE, list |-> c[p], cache |-> c, inserted |-> FALSE]
  ELSE LET d == decode(val, <<>>) IN
       IF ~d.ok THEN [ok |-> FALSE, list |-> <<>>, cache |-> c, inserted |-> FALSE]
       ELSE [ok |-> TRUE, list |-> d.list,
             cache |-> [k \in DOMAIN c \cup {p} |-> IF k = p THEN d.list ELSE c[k]],
             inserted |-> TRUE]

\* The cache key of a ValueList node: its address as an isize.
CacheKey(value_list_expr) == value_list_expr.addr

\* decode_value_list decoding the payload on every call and storing the list
\* with HashMap::insert, over an entry that is there.
decode_value_list_replacing(value_list_expr, path, c, tr) ==
  LET p == CacheKey(value_list_expr)
      d == decode(value_list_expr.val, <<>>)
  IN
  IF ~d.ok THEN Err("Codec", c, tr)
  ELSE [Base([k \in DOMAIN c \cup {p} |-> IF k = p THEN d.list ELSE c[k]],
             Append(tr, Event("insert", path, p, Null, Null)))
          EXCEPT !.list = d.list]

decode_value_list(value_list_expr, path, c, tr) ==
  LET p == CacheKey(value_list_expr)
      decoded == or_try_insert_with(c, p, value_list_expr.val)
  IN
  IF ~decoded.ok THEN Err("Codec", c, tr)
  ELSE [Base(decoded.cache,
             IF decoded.inserted
               THEN Append(tr, Event("insert", path, p, Null, Null))
               ELSE tr)
          EXCEPT !.list = decoded.list]

RECURSIVE CmpEvents(_, _, _)
CmpEvents(probed, target, path) ==
  IF probed = <<>> THEN <<>>
  ELSE <<Event("cmp", path, 0, Head(probed), target)>>
         \o CmpEvents(Tail(probed), target, path)

\* eval_in checking the kind of the second child and decoding the list
\* before it returns Null for a Null target.
eval_in_decoding_first(e, path, c, tr) ==
  IF Len(e.children) # 2 THEN Err("Expr", c, tr)
  ELSE
    LET target == eval(e.children[1], Append(path, 1), c, tr) IN
    IF target.kind # "Ok" THEN target
    ELSE
      LET value_list_expr == e.children[2] IN
      IF value_list_expr.tp # "ValueList"
        THEN Err("Expr", target.cache, target.trace)
      ELSE
        LET decoded == decode_value_list(value_list_expr, Append(path, 2),
                                         target.cache, target.trace)
        IN
        IF decoded.kind # "Ok" THEN decoded
        ELSE IF target.val = Null THEN Ok(Null, decoded.cache, decoded.trace)
        ELSE
          LET chk == check_in(target.val, decoded.list)
              tr2 == decoded.trace \o CmpEvents(chk.probed, target.val, path)
          IN
          IF ~chk.ok THEN Err("Eval", decoded.cache, tr2)
          ELSE IF chk.found THEN Ok(FromBool(TRUE), decoded.cache, tr2)
          ELSE IF decoded.list # <<>> /\ decoded.list[1] = Null
            THEN Ok(Null, decoded.cache, tr2)
          ELSE Ok(FromBool(FALSE), decoded.cache, tr2)

eval_in(e, path, c, tr) ==
  IF Len(e.children) # 2 THEN Err("Expr", c, tr)
  ELSE
    LET target == eval(e.children[1], Append(path, 1), c, tr) IN
    IF target.kind # "Ok" THEN target
    ELSE IF target.val = Null THEN target
    ELSE
      LET value_list_expr == e.children[2] IN
      IF value_list_expr.tp # "ValueList"
        THEN Err("Expr", target.cache, target.trace)
      ELSE
        LET decoded == decode_value_list(value_list_expr, Append(path, 2),
                                         target.cache, target.trace)
        IN
        IF decoded.kind # "Ok" THEN decoded
        ELSE
          LET chk == check_in(target.val, decoded.list)
              tr2 == decoded.trace \o CmpEvents(chk.probed, target.val, path)
          IN
          IF ~chk.ok THEN Err("Eval", decoded.cache, tr2)
          ELSE IF chk.found THEN Ok(FromBool(TRUE), decoded.cache, tr2)
          ELSE IF decoded.list # <<>> /\ decoded.list[1] = Null
            THEN Ok(Null, decoded.cache, tr2)
          ELSE Ok(FromBool(FALSE), decoded.cache, tr2)

\* Evaluator::eval: dispatch on the kind of the node.
eval(e, path, c, tr) ==
  LET t == Append(tr, Event("eval", path, 0, Null, Null)) IN
  CASE e.tp = "Int64" -> eval_int(e, path, c, t)
    [] e.tp = "Uint64" -> eval_uint(e, path, c, t)
    [] e.tp \in {"String", "Bytes"} -> Ok(Bytes(e.val), c, t)
    [] e.tp = "ColumnRef" -> eval_column_ref(e, path, c, t)
    [] e.tp = "LT" -> eval_lt(e, path, c, t)
    [] e.tp = "LE" -> eval_le(e, path, c, t)
    [] e.tp = "EQ" -> eval_eq(e, path, c, t)
    [] e.tp = "NE" -> eval_ne(e, path, c, t)
    [] e.tp = "GE" -> eval_ge(e, path, c, t)
    [] e.tp = "GT" -> eval_gt(e, path, c, t)
    [] e.tp = "NullEQ" -> eval_null_eq(e, path, c, t)
    [] e.tp = "And" -> eval_and(e, path, c, t)
    [] e.tp = "Or" -> eval_or(e, path, c, t)
    [] e.tp = "Not" -> eval_not(e, path, c, t)
    [] e.tp = "Like" -> eval_like(e, path, c, t)
    [] e.tp \in {"Float32", "Float64"} -> Panic(c, t)
    [] e.tp = "In" -> eval_in(e, path, c, t)
    [] OTHER -> Ok(Null, c, t)

----------------------------------------------------------------------------
(* The inputs of the model: Datums, payloads and expression trees.         *)

NoExpr == Node("NoExpr", <<>>, <<>>, 0)
NoResult == [kind |-> "None", val |-> Null, err |-> ""]

\* The Result of an evaluation, without the evaluator's state.
Outcome(r) == [kind |-> r.kind, val |-> r.val, err |-> r.err]

\* Datums a caller binds to a column.
RowDatums == {Null, I64(1)}

\* Every row binding over ColIds.
Rows == UNION {[cs -> RowDatums] : cs \in SUBSET ColIds}

\* Datums of literal nodes: "" , "1" and "a" are the byte strings.
LitDatums ==
  {Null, I64(0 - 1), I64(0), I64(1), U64(0), U64(2),
   Bytes(<<>>), Bytes(<<49>>), Bytes(<<97>>)}

\* An Int64 node whose payload is shorter than 8 bytes.
ShortInt == Node("Int64", <<0, 1>>, <<>>, 0)

\* A ValueList payload that is not a stream of Datums (an unknown tag).
BadPayload == <<9>>

\* Sorted value lists (ascending, Null first) and their payloads.
SortedLists ==
  {<<>>, <<I64(1)>>, <<I64(2)>>, <<Null, I64(1)>>, <<I64(1), I64(2)>>,
   <<Null, I64(0 - 1), U64(2)>>}
ListPayloads == {encode_value(l) : l \in SortedLists} \cup {BadPayload}

ListLeaves == {list_expr(p, a) : p \in ListPayloads, a \in Addrs}

Leaves ==
  {datum_expr(d) : d \in LitDatums}
    \cup {col_expr(col) : col \in ColIds}
    \cup {ShortInt, Node("Float32", <<>>, <<>>, 0), Node("Float64", <<>>, <<>>, 0),
          Node("Count", <<>>, <<>>, 0), list_expr(encode_value(<<I64(1)>>), 1)}

CmpOps == {"LT", "LE", "EQ", "NE", "GE", "GT"}
BinOps == CmpOps \cup {"NullEQ", "And", "Or", "Like"}

\* expr's ValueList node, when expr is In over a ValueList.
ListAddrs(e) ==
  IF e.tp = "In" /\ Len(e.children) = 2 /\ e.children[2].tp = "ValueList"
    THEN {e.children[2].addr} ELSE {}

\* Subtrees with an effect on the cache or a failure: In over a ValueList
\* (a Bytes target fails in cmp after the list was cached), a short integer
\* and a column reference; paired so that the ValueList nodes of one tree
\* lie at different addresses.
NestKids ==
  {in_expr(datum_expr(t), list_expr(encode_value(<<I64(1)>>), a)) :
     t \in {I64(1), Bytes(<<97>>)}, a \in Addrs}
    \cup {ShortInt, col_expr(1)}
NestPairs ==
  {p \in NestKids \X NestKids : ListAddrs(p[1]) \cap ListAddrs(p[2]) = {}}

\* Strings for Like: words of up to 2 characters over 'a', 'A' and '1', two
\* targets with a letter in the middle, and each word as a pattern with and
\* without a leading and a trailing '%'.
LikeChars == {97, 65, 49}
LikeWords ==
  {<<>>} \cup {<<x>> : x \in LikeChars}
    \cup {<<x, y>> : x \in LikeChars, y \in LikeChars}
LikeTargets == LikeWords \cup {<<49, 97, 49>>, <<49, 65, 49>>}
LikeAffixes == {<<>>, <<Percent>>}
LikePatterns ==
  {pre \o w \o post : pre \in LikeAffixes, w \in LikeWords, post \in LikeAffixes}
LikeExprs == {like_expr(t, p) : t \in LikeTargets, p \in LikePatterns}

\* The trees of one eval call on a fresh evaluator: leaves, every binary
\* operator over two leaves, In over a leaf and a ValueList (or a node of
\* another kind), Not, operators with a wrong number of children,
\* operators over two subtrees of NestKids, and Like over two strings.
EvalExprs ==
  Leaves
    \cup {bin_expr_r(l, r, tp) : l \in Leaves, r \in Leaves, tp \in BinOps}
    \cup {in_expr(p[1], p[2]) :
            p \in {q \in Leaves \X (ListLeaves \cup {datum_expr(I64(1))}) :
                     q[1].addr = 0 \/ q[1].addr # q[2].addr}}
    \cup {not_expr(l) : l \in Leaves}
    \cup {Node(tp, <<>>, <<datum_expr(I64(1))>>, 0) : tp \in BinOps \cup {"In"}}
    \cup {Node("Not", <<>>, <<>>, 0)}
    \cup {bin_expr_r(p[1], p[2], tp) : p \in NestPairs, tp \in BinOps}
    \cup {in_expr(p[1], p[2].children[2]) : p \in {q \in NestPairs : q[2].tp = "In"}}
    \cup LikeExprs

\* The trees an evaluator is used on over its lifetime: In over a ValueList
\* allocated at any address (a Bytes target fails in cmp after the list was
\* decoded), operators over two such subtrees (or failing leaves) whose
\* ValueList nodes lie at different addresses, and trees that are no In over
\* a ValueList: a column reference, a ValueList node on its own, In over one
\* child and In over a second child of another kind.
LifeTargets ==
  {datum_expr(I64(1)), datum_expr(I64(2)), datum_expr(Null), col_expr(1),
   datum_expr(Bytes(<<97>>))}
LifePayloads ==
  {encode_value(<<I64(1)>>), encode_value(<<I64(2)>>),
   encode_value(<<Null, I64(1)>>), BadPayload}
LifeIns ==
  {in_expr(t, list_expr(p, a)) : t \in LifeTargets, p \in LifePayloads, a \in Addrs}
LifeKids ==
  {in_expr(datum_expr(I64(1)), list_expr(p, a)) :
     p \in {encode_value(<<I64(1)>>), BadPayload}, a \in Addrs}
    \cup {col_expr(MaxCol), ShortInt, Node("Float64", <<>>, <<>>, 0)}
LifePairs ==
  {p \in LifeKids \X LifeKids : ListAddrs(p[1]) \cap ListAddrs(p[2]) = {}}
LifeOthers ==
  {col_expr(MaxCol),
   Node("In", <<>>, <<datum_expr(I64(1))>>, 0),
   in_expr(datum_expr(I64(1)), datum_expr(I64(1)))}
    \cup {list_expr(encode_value(<<I64(1)>>), a) : a \in Addrs}
LifeExprs ==
  LifeIns
    \cup {bin_expr_r(p[1], p[2], tp) : p \in LifePairs, tp \in {"And", "EQ"}}
    \cup LifeOthers

----------------------------------------------------------------------------
(* The evaluator over its lifetime.                                        *)

\* Evaluator::default(): empty row bindings and an empty cache; the caller
\* holds no tree yet.
Init ==
  /\ row = EmptyMap
  /\ cached_value_list = EmptyMap
  /\ expr = NoExpr
  /\ result = NoResult
  /\ trace = <<>>

\* A panic unwinds the caller: nothing more happens on this evaluator.
Running == result.kind # "Panic"

\* xevaluator.row.insert(col, d), between eval calls; the caller has taken the
\* result of the call before.
set_column(col, d) ==
  /\ Running
  /\ row' = [k \in DOMAIN row \cup {col} |-> IF k = col THEN d ELSE row[k]]
  /\ result' = NoResult
  /\ trace' = <<>>
  /\ UNCHANGED <<cached_value_list, expr>>

\* The caller builds the tree e; the allocator places its ValueList nodes.
Build(e) ==
  /\ Running
  /\ expr = NoExpr
  /\ expr' = e
  /\ UNCHANGED <<row, cached_value_list, result, trace>>

\* The caller calls eval on its tree.
Eval ==
  /\ Running
  /\ expr # NoExpr
  /\ LET r == eval(expr, <<>>, cached_value_list, <<>>) IN
       /\ cached_value_list' = r.cache
       /\ result' = Outcome(r)
       /\ trace' = r.trace
       /\ row' = r.rows
  /\ UNCHANGED expr

\* The caller drops its tree: the addresses of its nodes are free again.
DropExpr ==
  /\ Running
  /\ expr # NoExpr
  /\ expr' = NoExpr
  /\ result' = NoResult
  /\ trace' = <<>>
  /\ UNCHANGED <<row, cached_value_list>>

\* The evaluator is dropped (with the caller's tree) and a new one is made.
NewEvaluator ==
  /\ row' = EmptyMap
  /\ cached_value_list' = EmptyMap
  /\ expr' = NoExpr
  /\ result' = NoResult
  /\ trace' = <<>>

Next ==
  \/ \E col \in ColIds, d \in RowDatums : set_column(col, d)
  \/ \E e \in LifeExprs : Build(e)
  \/ Eval
  \/ DropExpr
  \/ NewEvaluator

Spec == Init /\ [][Next]_vars

(* One eval call on a fresh evaluator, for every row binding and tree.     *)
InitEval ==
  /\ row \in Rows
  /\ cached_value_list = EmptyMap
  /\ expr \in EvalExprs
  /\ result = NoResult
  /\ trace = <<>>

NextEval == Eval

SpecEval == InitEval /\ [][NextEval]_vars

----------------------------------------------------------------------------
(* Properties.                                                             *)

\* An eval call on expr has returned (or panicked).
Done == result # NoResult

OkOut(d) == [kind |-> "Ok", val |-> d, err |-> ""]
ErrOut(e) == [kind |-> "Err", val |-> Null, err |-> e]

\* The outcome of the same call on an evaluator that decodes every
\* ValueList payload freshly (an empty cache).
FreshOutcome == Outcome(eval(expr, <<>>, EmptyMap, <<>>))

\* expr is In over a target and a ValueList node.
IsInOverList ==
  /\ expr.tp = "In"
  /\ Len(expr.children) = 2
  /\ expr.children[2].tp = "ValueList"

\* C1: over the lifetime of one evaluator (trees dropped and new ones built
\* between calls), every eval returns what an evaluation that decodes each
\* ValueList payload freshly returns: the list cached under the key of a
\* ValueList node is the decoding of that node's payload.
C1_CacheMatchesFreshDecode ==
  Done => result = FreshOutcome

\* The value of a child that is a leaf, evaluated on its own.
ChildOut(k) == Outcome(eval(expr.children[k], <<k>>, EmptyMap, <<>>))

\* t is an element of the list l, by the order of Datums.
Member(t, l) ==
  \E k \in 1..Len(l) : cmp(l[k], t).ok /\ cmp(l[k], t).ord = "Equal"

\* C2: for an integer target t and a sorted list L of integers (Null first)
\* eval of In(t, L) returns I64(1) if t is in L, I64(0) if t is not in L and
\* Null is not in L, Null if t is not in L and Null is in L; for a Null target
\* it returns Null.
C2_InMembership ==
  (/\ Done
   /\ IsInOverList
   /\ ChildOut(1).kind = "Ok"
   /\ decode(expr.children[2].val, <<>>).ok)
  => LET t == ChildOut(1).val
         L == decode(expr.children[2].val, <<>>).list
     IN (\A k \in 1..Len(L) : L[k] = Null \/ cmp(L[k], t).ok)
        => result =
             IF t = Null THEN OkOut(Null)
             ELSE IF Member(t, L) THEN OkOut(I64(1))
             ELSE IF \E k \in 1..Len(L) : L[k] = Null THEN OkOut(Null)
             ELSE OkOut(I64(0))

\* expr is an operator over two children.
IsBinary(ops) == expr.tp \in ops /\ Len(expr.children) = 2

BothChildrenOk == ChildOut(1).kind = "Ok" /\ ChildOut(2).kind = "Ok"

\* C3: for each of LT, LE, EQ, NE, GE, GT, when either operand is Null (the
\* other being any Datum) eval returns Null, and the comparison does not call
\* Datum::cmp.
C3_NullComparison ==
  (/\ Done
   /\ IsBinary(CmpOps)
   /\ BothChildrenOk
   /\ (ChildOut(1).val = Null \/ ChildOut(2).val = Null))
  => /\ result = OkOut(Null)
     /\ \A k \in 1..Len(trace) : ~(trace[k].ev = "cmp" /\ trace[k].path = <<>>)

\* C3's case: a comparison of a non-null Datum with Null has returned Null.
C3_Witness ==
  /\ Done
  /\ IsBinary({"GE"})
  /\ ChildOut(1) = OkOut(I64(1))
  /\ ChildOut(2) = OkOut(Null)
  /\ result = OkOut(Null)

\* The truth value of a Datum: "N" for Null, else "T" or "F" by into_bool.
HasTruth(d) == d = Null \/ into_bool(d).ok
TruthOf(d) == IF d = Null THEN "N" ELSE IF into_bool(d).v THEN "T" ELSE "F"

ChildrenHaveTruth ==
  BothChildrenOk /\ HasTruth(ChildOut(1).val) /\ HasTruth(ChildOut(2).val)

\* C4: over the 9 combinations of true, false and Null children, And is the
\* Kleene conjunction: I64(1) for true and true, I64(0) when either side is
\* false, Null otherwise.
C4_KleeneAnd ==
  (Done /\ IsBinary({"And"}) /\ ChildrenHaveTruth)
  => LET a == TruthOf(ChildOut(1).val)
         b == TruthOf(ChildOut(2).val)
     IN result = OkOut(IF a = "T" /\ b = "T" THEN I64(1)
                       ELSE IF a = "F" \/ b = "F" THEN I64(0)
                       ELSE Null)

\* C4's case: And(Null, false) has returned I64(0).
C4_Witness ==
  /\ Done
  /\ IsBinary({"And"})
  /\ ChildOut(1) = OkOut(Null)
  /\ ChildOut(2) = OkOut(I64(0))
  /\ result = OkOut(I64(0))

\* C5: over the 9 combinations of true, false and Null children, Or is the
\* Kleene disjunction: I64(1) when either side is true, I64(0) for false and
\* false, Null otherwise.
C5_KleeneOr ==
  (Done /\ IsBinary({"Or"}) /\ ChildrenHaveTruth)
  => LET a == TruthOf(ChildOut(1).val)
         b == TruthOf(ChildOut(2).val)
     IN result = OkOut(IF a = "T" \/ b = "T" THEN I64(1)
                       ELSE IF a = "F" /\ b = "F" THEN I64(0)
                       ELSE Null)

\* C5's case: Or(Null, true) has returned I64(1).
C5_Witness ==
  /\ Done
  /\ IsBinary({"Or"})
  /\ ChildOut(1) = OkOut(Null)
  /\ ChildOut(2) = OkOut(I64(1))
  /\ result = OkOut(I64(1))

\* The result NullEQ has on operands a and b when their comparison does not
\* fail.
NullEQValue(a, b) ==
  IF a = Null /\ b = Null THEN I64(1)
  ELSE IF a = Null \/ b = Null THEN I64(0)
  ELSE FromBool(cmp(a, b).ok /\ cmp(a, b).ord = "Equal")

\* C6 as claimed: for all Datums a and b, NullEQ(a, b) returns I64(0) or
\* I64(1): I64(1) when both are Null, I64(0) when exactly one is Null, and
\* otherwise I64(1) exactly when cmp(a, b) is equal.
C6_NullEQ_AllDatums ==
  (Done /\ IsBinary({"NullEQ"}) /\ BothChildrenOk)
  => result = OkOut(NullEQValue(ChildOut(1).val, ChildOut(2).val))

\* C6 as amended: the same for all a and b whose comparison does not fail;
\* when cmp(a, b) fails, eval returns that error (not Null).
C6_NullEQ ==
  (Done /\ IsBinary({"NullEQ"}) /\ BothChildrenOk)
  => LET a == ChildOut(1).val
         b == ChildOut(2).val
     IN IF cmp(a, b).ok THEN result = OkOut(NullEQValue(a, b))
        ELSE result = ErrOut("Eval")

\* C6's case: NullEQ of a non-null Datum and Null has returned I64(0).
C6_Witness ==
  /\ Done
  /\ IsBinary({"NullEQ"})
  /\ ChildOut(1) = OkOut(I64(1))
  /\ ChildOut(2) = OkOut(Null)
  /\ result = OkOut(I64(0))

\* The trace holds a call of eval on the node at path p.
Evaluated(p) ==
  \E k \in 1..Len(trace) : trace[k].ev = "eval" /\ trace[k].path = p

\* C7: And and Or do not short-circuit: once the left child has evaluated
\* (to false, true or anything else) the right child is evaluated, and when
\* the right child fails the whole expression returns that failure.
C7_NoShortCircuit ==
  (Done /\ IsBinary({"And", "Or"}) /\ ChildOut(1).kind = "Ok")
  => /\ Evaluated(<<2>>)
     /\ ChildOut(2).kind # "Ok" => result = ChildOut(2)

\* C7's case: And of a false left child and a failing right child has
\* returned the right child's error.
C7_Witness ==
  /\ Done
  /\ IsBinary({"And"})
  /\ ChildOut(1) = OkOut(I64(0))
  /\ ChildOut(2) = ErrOut("Eval")
  /\ result = ErrOut("Eval")

\* The node at path p is the k-th child of the root or lies below it.
IsUnder(p, k) == Len(p) >= 1 /\ p[1] = k

\* C8: for every binary operator (comparisons, NullEQ, And, Or, Like, In) the
\* left child is evaluated before the right one: nothing done for the right
\* child precedes anything done for the left child; and when the left child
\* fails, eval returns the left child's failure and the right child has had
\* no effect (the cache is as the left child left it).
C8_LeftBeforeRight ==
  (Done /\ IsBinary(BinOps \cup {"In"}))
  => /\ \A i \in 1..Len(trace) : \A j \in 1..Len(trace) :
          (IsUnder(trace[i].path, 2) /\ IsUnder(trace[j].path, 1)) => j < i
     /\ ChildOut(1).kind # "Ok"
          => /\ result = ChildOut(1)
             /\ \A i \in 1..Len(trace) : ~IsUnder(trace[i].path, 2)
             /\ cached_value_list
                  = eval(expr.children[1], <<1>>, EmptyMap, <<>>).cache

\* C8's case: both children fail, the left one after it has added a cache
\* entry, and the error returned is the left child's.
C8_Witness ==
  /\ Done
  /\ IsBinary(CmpOps)
  /\ ChildOut(1) = ErrOut("Eval")
  /\ ChildOut(2) = ErrOut("Codec")
  /\ result = ErrOut("Eval")
  /\ DOMAIN cached_value_list # {}

\* C9: eval of ColumnRef(c) returns the Datum bound to c in the row when c is
\* bound, and an Eval error (never Null) when c is absent from the row.
C9_ColumnRef ==
  (Done /\ expr.tp = "ColumnRef" /\ decode_i64(expr.val).ok)
  => LET col == decode_i64(expr.val).n IN
     IF col \in DOMAIN row THEN result = OkOut(row[col])
     ELSE result = ErrOut("Eval")

\* C9's case: a reference to a column absent from a row that binds another
\* column has returned the Eval error.
C9_Witness ==
  /\ Done
  /\ expr = col_expr(2)
  /\ DOMAIN row = {1}
  /\ result = ErrOut("Eval")

\* C10: eval of a Float32 or Float64 node returns an error value (an Err
\* result) to the caller; it does not abort.
C10_FloatReturnsError ==
  (Done /\ expr.tp \in {"Float32", "Float64"}) => result.kind = "Err"

\* C11: eval of an In node with exactly 2 children whose second child is not
\* a ValueList returns the Expr error for every first child that evaluates
\* without error, whatever value the target has (Null included); eval of an In
\* node whose number of children is not 2 returns the Expr error.
C11_InStructureIsExprError ==
  (Done /\ expr.tp = "In")
  => /\ Len(expr.children) # 2 => result = ErrOut("Expr")
     /\ (/\ Len(expr.children) = 2
         /\ expr.children[2].tp # "ValueList"
         /\ ChildOut(1).kind = "Ok")
        => result = ErrOut("Expr")

\* C12: eval never modifies the row bindings: in every step in which an eval
\* call returns, with a value or with an error, the row map after the call is
\* the row map before it; the bindings change only in steps of the caller
\* between calls.
C12_EvalKeepsRow ==
  [][result' # NoResult => row' = row]_vars

\* C12's case: a reference to a column absent from the row has returned its
\* error, and the row still binds exactly the column the caller had bound.
C12_Witness ==
  /\ Done
  /\ expr = col_expr(MaxCol)
  /\ result = ErrOut("Eval")
  /\ DOMAIN row = {1}
  /\ DOMAIN cached_value_list # {}

\* A pattern of the restricted grammar: its parts.  The pattern has a leading
\* '%' when it starts with one, a trailing '%' when it ends with another one,
\* and X is what lies between them.
LikeLead(p) == Len(p) >= 1 /\ p[1] = Percent
LikeTrail(p) == Len(p) >= 2 /\ p[Len(p)] = Percent
LikeX(p) ==
  SubSeq(p, IF LikeLead(p) THEN 2 ELSE 1, IF LikeTrail(p) THEN Len(p) - 1 ELSE Len(p))
InLikeGrammar(p) ==
  \A k \in 1..Len(LikeX(p)) : LikeX(p)[k] \notin {Percent, 92, 95}

HasAsciiLetter(s) ==
  \E k \in 1..Len(s) : s[k] \in (65..90) \cup (97..122)
AsciiFolded(s) ==
  [k \in 1..Len(s) |-> IF s[k] \in 65..90 THEN s[k] + 32 ELSE s[k]]

\* Whether target t matches pattern p: both are folded exactly when p holds
\* an ASCII letter; then %X% asks for t = u X v, %X for t = u X, X% for
\* t = X v, and X for t = X.
LikeMatches(t, p) ==
  LET T == IF HasAsciiLetter(p) THEN AsciiFolded(t) ELSE t
      X == IF HasAsciiLetter(p) THEN AsciiFolded(LikeX(p)) ELSE LikeX(p)
      At(i) == i + Len(X) <= Len(T) /\ SubSeq(T, i + 1, i + Len(X)) = X
  IN IF LikeLead(p) /\ LikeTrail(p) THEN \E i \in 0..Len(T) : At(i)
     ELSE IF LikeLead(p) THEN Len(X) <= Len(T) /\ At(Len(T) - Len(X))
     ELSE IF LikeTrail(p) THEN At(0)
     ELSE T = X

\* C13: eval of Like returns Null if either operand is Null; for a string
\* target and a pattern of the restricted grammar (at most one leading and one
\* trailing %) it returns I64(1) or I64(0) for: %X% substring containment, %X
\* suffix, X% prefix, X exact equality, both strings ASCII-lowercased exactly
\* when the pattern contains an ASCII letter (a pattern without letters is
\* matched byte-exactly, even against a mixed-case target).
C13_Like ==
  (Done /\ IsBinary({"Like"}) /\ BothChildrenOk)
  => LET t == ChildOut(1).val
         p == ChildOut(2).val
     IN IF t = Null \/ p = Null THEN result = OkOut(Null)
        ELSE (/\ t.t = "Bytes" /\ p.t = "Bytes"
              /\ into_string(t).ok /\ into_string(p).ok
              /\ InLikeGrammar(p.b))
             => result = OkOut(FromBool(LikeMatches(t.b, p.b)))

\* C13's case: an upper-case letter in the middle of the target has matched
\* the pattern %a%, whose letter is lower-case.
C13_Witness ==
  /\ Done
  /\ expr = like_expr(<<49, 65, 49>>, <<Percent, 97, Percent>>)
  /\ result = OkOut(I64(1))

\* The ValueList nodes of a tree.
RECURSIVE ValueListNodes(_)
ValueListNodes(e) ==
  (IF e.tp = "ValueList" THEN {e} ELSE {})
    \cup UNION {ValueListNodes(e.children[k]) : k \in 1..Len(e.children)}

\* Every entry of the cache is there after the step, with the same list.
EntriesKept ==
  \A k \in DOMAIN cached_value_list :
    k \in DOMAIN cached_value_list' /\ cached_value_list'[k] = cached_value_list[k]

\* Every entry the step has added is the decoding of the payload of a
\* ValueList node of the tree, under that node's key.
EntriesAddedAreDecoded ==
  \A k \in DOMAIN cached_value_list' \ DOMAIN cached_value_list :
    \E n \in ValueListNodes(expr) :
      /\ CacheKey(n) = k
      /\ decode(n.val, <<>>).ok
      /\ cached_value_list'[k] = decode(n.val, <<>>).list

\* The step is an eval call on In over a non-null target and a ValueList
\* node for which the cache has no entry.
EvalOfUncachedIn ==
  /\ result' # NoResult
  /\ IsInOverList
  /\ ChildOut(1).kind = "Ok"
  /\ ChildOut(1).val # Null
  /\ CacheKey(expr.children[2]) \notin DOMAIN cached_value_list

\* C14: across any sequence of eval calls on one evaluator the value-list
\* cache only grows: no step removes or replaces an entry; an entry is added
\* only as the successful decoding of a ValueList payload; when the decoding
\* fails the call returns the Codec error and the cache is as before; when it
\* succeeds the entry is in the cache after the call, whatever the call
\* returns (a comparison error of the enclosing In included).
C14_CacheOnlyGrows ==
  [][NewEvaluator
     \/ /\ EntriesKept
        /\ EntriesAddedAreDecoded
        /\ EvalOfUncachedIn
             => LET n == expr.children[2]
                    d == decode(n.val, <<>>)
                IN IF d.ok
                     THEN /\ CacheKey(n) \in DOMAIN cached_value_list'
                          /\ cached_value_list'[CacheKey(n)] = d.list
                     ELSE /\ cached_value_list' = cached_value_list
                          /\ result' = ErrOut("Codec")]_vars

\* C14's case: In over a target that cmp cannot compare with the list has
\* returned the Eval error, the list decoded in this call is in the cache, and
\* so is the entry of an earlier call.
C14_Witness ==
  /\ Done
  /\ IsInOverList
  /\ result = ErrOut("Eval")
  /\ \E k \in 1..Len(trace) : trace[k].ev = "insert"
  /\ CacheKey(expr.children[2]) \in DOMAIN cached_value_list
  /\ Cardinality(DOMAIN cached_value_list) = 2

\* The nodes of a tree.
RECURSIVE Nodes(_)
Nodes(e) == {e} \cup UNION {Nodes(e.children[k]) : k \in 1..Len(e.children)}

\* The keys under which the cache after the step differs from the cache
\* before it (an entry added, removed or replaced).
ChangedKeys ==
  {k \in DOMAIN cached_value_list \cup DOMAIN cached_value_list' :
     \/ k \notin DOMAIN cached_value_list
     \/ k \notin DOMAIN cached_value_list'
     \/ cached_value_list'[k] # cached_value_list[k]}

\* n is an In node over two children, the second a ValueList, whose target
\* evaluates to a non-null value.
IsInWithTarget(n) ==
  /\ n.tp = "In"
  /\ Len(n.children) = 2
  /\ n.children[2].tp = "ValueList"
  /\ LET t == eval(n.children[1], <<1>>, cached_value_list, <<>>) IN
       t.kind = "Ok" /\ t.val # Null

\* C15: an eval call changes the value-list cache only under the key of a
\* ValueList that is the second child of an In node of the tree whose target
\* evaluates to a non-null value: eval of In with a Null target, of In with a
\* wrong number of children or a second child of another kind, and of a tree
\* without In leaves the cache as it was, and so does eval of a ValueList
\* node itself, which returns Null.
C15_OnlyInChangesCache ==
  [][result' # NoResult
     => /\ \A k \in ChangedKeys :
             \E n \in Nodes(expr) :
               IsInWithTarget(n) /\ CacheKey(n.children[2]) = k
        /\ expr.tp = "ValueList"
             => result' = OkOut(Null) /\ cached_value_list' = cached_value_list]_vars

\* C15's case: In with a Null target over a ValueList that decodes and has
\* no entry has returned Null, and the cache, which holds the entry of an
\* earlier call, has no entry for it.
C15_Witness ==
  /\ Done
  /\ IsInOverList
  /\ ChildOut(1) = OkOut(Null)
  /\ decode(expr.children[2].val, <<>>).ok
  /\ result = OkOut(Null)
  /\ DOMAIN cached_value_list # {}
  /\ CacheKey(expr.children[2]) \notin DOMAIN cached_value_list

=============================================================================
